---- MODULE Spec2Model ----
(***************************************************************************)
(* Model of the openacademy module (src/models/models.py): the Course      *)
(* model with its copy() override and SQL constraints, and the Session     *)
(* model with its computed / inverse fields, onchange and constraint.      *)
(*                                                                         *)
(* Text (Char / Text fields) is a sequence of one-character strings, so    *)
(* that string formatting and the SQL LIKE match are computed character by *)
(* character.  A Date is a day number (day 0 is a Monday); a Datetime is a *)
(* number of seconds (midnight of day d is d * SecondsPerDay).  The Float  *)
(* field duration, digits=(6, 2), is held in hundredths of a day.          *)
(***************************************************************************)
EXTENDS Integers, Sequences, FiniteSets, Bags, TLC

VARIABLES
    course,          \* openacademy.course table: bag of rows [name, description]
    course_error,    \* constraint that rejected the last Course operation, or ""
    course_last,     \* last Course operation: [op, src, new_name]
    start_date,      \* Session.start_date (day number or NoDate)
    duration,        \* Session.duration, in hundredths of a day
    end_date,        \* Session.end_date (stored computed field)
    date_last,       \* last operation on the date fields: [op, val, prev]
    seats,           \* Session.seats
    instructor_id,   \* Session.instructor_id (partner or NoPartner)
    attendee_ids,    \* Session.attendee_ids (set of partners)
    attendees_count, \* Session.attendees_count (stored computed field)
    form,            \* values of the form being edited: [seats, attendee_ids]
    warning,         \* title of the warning the last onchange returned, or ""
    session_error,   \* message of the ValidationError of the last write, or ""
    seat_last        \* last operation on the seat fields and its arguments

course_vars == <<course, course_error, course_last>>
date_vars == <<start_date, duration, end_date, date_last>>
seat_vars == <<seats, instructor_id, attendee_ids, attendees_count, form,
               warning, session_error, seat_last>>
vars == <<course_vars, date_vars, seat_vars>>

-----------------------------------------------------------------------------
(* Bounds of the model *)

MaxCourses == 3
MaxNameLen == 21
MaxDay == 1
MaxDuration == 5
MaxSeats == 2
NumPartners == 2

-----------------------------------------------------------------------------
(* Text *)

\* u"Copy of " (models.py:25,27,29)
CopyOf == <<"C", "o", "p", "y", " ", "o", "f", " ">>

StartsWith(s, prefix) ==
    /\ Len(prefix) <= Len(s)
    /\ SubSeq(s, 1, Len(prefix)) = prefix

DigitChar(d) == <<"0", "1", "2", "3", "4", "5", "6", "7", "8", "9">>[d + 1]

\* "{}".format(n) for an integer n >= 0
RECURSIVE Str(_)
Str(n) == IF n < 10 THEN <<DigitChar(n)>>
          ELSE Str(n \div 10) \o <<DigitChar(n % 10)>>

\* SQL LIKE, as the '=like' domain operator hands the pattern to it unescaped:
\* % matches any sequence of characters, _ any one character, and a backslash
\* makes the character after it literal.
RECURSIVE Like(_, _)
Like(s, p) ==
    IF p = <<>> THEN s = <<>>
    ELSE IF Head(p) = "%"
        THEN Like(s, Tail(p)) \/ (s # <<>> /\ Like(Tail(s), p))
    ELSE IF Head(p) = "\\" /\ Len(p) >= 2
        THEN s # <<>> /\ Head(s) = p[2] /\ Like(Tail(s), Tail(Tail(p)))
    ELSE s # <<>> /\ (Head(p) = "_" \/ Head(p) = Head(s)) /\ Like(Tail(s), Tail(p))

-----------------------------------------------------------------------------
(* Course *)

\* The openacademy_course table is a bag of rows [name, description]: the
\* record ids play no part in copy() or in the constraints, and a bag keeps
\* two equal rows apart.

\* Titles and descriptions a caller supplies.  A description is an optional
\* text: <<>> is NULL, <<t>> is the text t.
NameInputs == {<<"a">>, <<"_">>}
DescriptionInputs == {<<>>, <<<<"a">>>>}

NoError == ""
NoRow == [name |-> <<>>, description |-> <<>>]

Rows(table) == BagToSet(table)

\* The table restricted to the rows in S.
Select(table, S) == [r \in S |-> table[r]]

Insert(table, row) == table (+) SetToBag({row})

Delete(table, row) == table (-) SetToBag({row})

\* search_count([('name', '=like', pattern)])
search_count(table, pattern) ==
    BagCardinality(Select(table, {r \in Rows(table) : Like(r.name, pattern)}))

\* Faulty variant of new_name: an existing "Copy of " prefix is dropped first.
new_name_prefix_stripped(table, name) ==
    LET base == IF StartsWith(name, CopyOf)
                    THEN SubSeq(name, Len(CopyOf) + 1, Len(name)) ELSE name
        copied_count == search_count(table, CopyOf \o base \o <<"%">>)
    IN  IF copied_count = 0 THEN CopyOf \o base
        ELSE CopyOf \o base \o <<" ", "(">> \o Str(copied_count) \o <<")">>

\* The title Course.copy computes for the duplicate of a Course named name.
new_name(table, name) ==
    LET copied_count == search_count(table, CopyOf \o name \o <<"%">>)
    IN  IF copied_count = 0 THEN CopyOf \o name
        ELSE CopyOf \o name \o <<" ", "(">> \o Str(copied_count) \o <<")">>

\* CHECK(name != description): a NULL description passes.
name_description_check(table) ==
    \A r \in Rows(table) : r.description = <<>> \/ r.description[1] # r.name

\* Faulty variant of name_unique: the constraint is not declared.
name_unique_dropped(table) == TRUE

\* UNIQUE(name)
name_unique(table) ==
    \A r \in Rows(table) :
        BagCardinality(Select(table, {x \in Rows(table) : x.name = r.name})) = 1

\* The constraint the database reports for the table a transaction would
\* commit, or NoError.
sql_constraints(table) ==
    IF ~name_description_check(table) THEN "name_description_check"
    ELSE IF ~name_unique(table) THEN "name_unique"
    ELSE NoError

\* A transaction commits the table it built, or is rolled back by the
\* constraint it breaks.
Commit(table, op, src, title) ==
    /\ course_error' = sql_constraints(table)
    /\ course' = IF sql_constraints(table) = NoError THEN table ELSE course
    /\ course_last' = [op |-> op, src |-> src, new_name |-> title]

\* create({'name': name, 'description': description})
CourseCreate(name, description) ==
    /\ BagCardinality(course) < MaxCourses
    /\ Commit(Insert(course, [name |-> name, description |-> description]),
              "create", NoRow, <<>>)
    /\ UNCHANGED <<date_vars, seat_vars>>

\* row.write({'name': name})
CourseWriteName(row, name) ==
    /\ BagIn(row, course)
    /\ Commit(Insert(Delete(course, row), [row EXCEPT !.name = name]),
              "write", row, <<>>)
    /\ UNCHANGED <<date_vars, seat_vars>>

\* row.write({'description': description})
CourseWriteDescription(row, description) ==
    /\ BagIn(row, course)
    /\ Commit(Insert(Delete(course, row),
                     [row EXCEPT !.description = description]),
              "write", row, <<>>)
    /\ UNCHANGED <<date_vars, seat_vars>>

\* row.copy(): the base copy() creates a row with row's field values and the
\* computed title.
CourseCopy(row) ==
    /\ BagIn(row, course)
    /\ BagCardinality(course) < MaxCourses
    /\ Len(new_name(course, row.name)) <= MaxNameLen
    /\ Commit(Insert(course, [row EXCEPT !.name = new_name(course, row.name)]),
              "copy", row, new_name(course, row.name))
    /\ UNCHANGED <<date_vars, seat_vars>>

\* row.unlink()
CourseUnlink(row) ==
    /\ BagIn(row, course)
    /\ course' = Delete(course, row)
    /\ course_error' = NoError
    /\ course_last' = [op |-> "unlink", src |-> row, new_name |-> <<>>]
    /\ UNCHANGED <<date_vars, seat_vars>>

CourseInit ==
    /\ course = EmptyBag
    /\ course_error = NoError
    /\ course_last = [op |-> "init", src |-> NoRow, new_name |-> <<>>]

CourseNext ==
    \/ \E n \in NameInputs, d \in DescriptionInputs : CourseCreate(n, d)
    \/ \E row \in Rows(course), n \in NameInputs : CourseWriteName(row, n)
    \/ \E row \in Rows(course), d \in DescriptionInputs :
           CourseWriteDescription(row, d)
    \/ \E row \in Rows(course) : CourseCopy(row)
    \/ \E row \in Rows(course) : CourseUnlink(row)

-----------------------------------------------------------------------------
(* Session: start_date, duration, end_date, hours *)

\* A Date field that is not set (False).
NoDate == -1000

SecondsPerDay == 86400
\* duration is Float(digits=(6, 2)): the model counts hundredths of a day.
DurationScale == 100
HoursPerDay == 24

DateInputs == 0..MaxDay
DurationInputs == {h \in (-DurationScale * MaxDuration)..(DurationScale * MaxDuration) :
                      h % 25 = 0}
HoursInputs == {0, 12, 24, 30, 48}

\* fields.Datetime.from_string of a date: midnight of that day, in seconds.
from_string(d) == d * SecondsPerDay

\* A datetime assigned to a Date field keeps its date.
to_date(seconds) == seconds \div SecondsPerDay

\* timedelta(days=duration, seconds=s), in seconds.
timedelta(dur, s) == (dur * SecondsPerDay) \div DurationScale + s

\* Faulty variants of get_end_date: a duration of 0 is added like any other;
\* the second is not subtracted.
get_end_date_zero_duration_added(sd, dur) ==
    IF sd = NoDate THEN sd
    ELSE to_date(from_string(sd) + timedelta(dur, -1))

get_end_date_exclusive(sd, dur) ==
    IF sd = NoDate \/ dur = 0 THEN sd
    ELSE to_date(from_string(sd) + timedelta(dur, 0))

\* Session._get_end_date: the value it assigns to end_date.
get_end_date(sd, dur) ==
    IF sd = NoDate \/ dur = 0 THEN sd
    ELSE to_date(from_string(sd) + timedelta(dur, -1))

\* Faulty variant of set_end_date: the day is not added.
set_end_date_difference_only(sd, ed, dur) ==
    IF sd = NoDate \/ ed = NoDate THEN dur
    ELSE ((from_string(ed) - from_string(sd)) \div SecondsPerDay) * DurationScale

\* Session._set_end_date: the value duration has after it ran.
set_end_date(sd, ed, dur) ==
    IF sd = NoDate \/ ed = NoDate THEN dur
    ELSE ((from_string(ed) - from_string(sd)) \div SecondsPerDay + 1) * DurationScale

\* Session._set_hours: duration = hours / 24, rounded to the field's two
\* decimals when it is stored (hours >= 0 here).
set_hours(hours) ==
    (2 * hours * DurationScale + HoursPerDay) \div (2 * HoursPerDay)

DateOp(op, val) == date_last' = [op |-> op, val |-> val, prev |-> date_last.op]

\* write({'start_date': sd}): end_date depends on start_date and is recomputed.
WriteStartDate(sd) ==
    /\ start_date' = sd
    /\ end_date' = get_end_date(sd, duration)
    /\ DateOp("write_start_date", sd)
    /\ UNCHANGED <<duration, course_vars, seat_vars>>

\* write({'duration': dur})
WriteDuration(dur) ==
    /\ duration' = dur
    /\ end_date' = get_end_date(start_date, dur)
    /\ DateOp("write_duration", dur)
    /\ UNCHANGED <<start_date, course_vars, seat_vars>>

\* write({'end_date': ed}): the value is stored and the inverse runs; when the
\* inverse assigns duration, end_date, which depends on it, is recomputed.
WriteEndDate(ed) ==
    /\ duration' = set_end_date(start_date, ed, duration)
    /\ end_date' = IF start_date = NoDate \/ ed = NoDate THEN ed
                   ELSE get_end_date(start_date, duration')
    /\ DateOp("write_end_date", ed)
    /\ UNCHANGED <<start_date, course_vars, seat_vars>>

\* write({'hours': hours}): the inverse assigns duration.
WriteHours(hours) ==
    /\ duration' = set_hours(hours)
    /\ end_date' = get_end_date(start_date, duration')
    /\ DateOp("write_hours", hours)
    /\ UNCHANGED <<start_date, course_vars, seat_vars>>

\* create(): start_date defaults to today (day 0 here), duration to 0.
DateInit ==
    /\ start_date = 0
    /\ duration = 0
    /\ end_date = get_end_date(start_date, duration)
    /\ date_last = [op |-> "create", val |-> start_date, prev |-> "create"]

DateNext ==
    \/ \E sd \in DateInputs \cup {NoDate} : WriteStartDate(sd)
    \/ \E dur \in DurationInputs : WriteDuration(dur)
    \/ \E ed \in DateInputs \cup (MaxDay + 1 .. MaxDay + MaxDuration) \cup {-1, NoDate} :
           WriteEndDate(ed)
    \/ \E hours \in HoursInputs : WriteHours(hours)

-----------------------------------------------------------------------------
(* Session: seats, instructor_id, attendee_ids, taken_seats, attendees_count *)

\* A Many2one field that is not set (False).
NoPartner == 0
Partners == 1..NumPartners
SeatInputs == -1..MaxSeats

InstructorIsAttendee == "A session's instructor can't be an attendee"
IncorrectSeats == "Incorrect 'seats' value"
TooManyAttendees == "Too many attendees"
NoWarning == ""

\* A float as an exact fraction in lowest terms; err marks a ZeroDivisionError.
RECURSIVE Gcd(_, _)
Gcd(a, b) == IF b = 0 THEN a ELSE Gcd(b, a % b)

Abs(a) == IF a < 0 THEN -a ELSE a

Float(n) == [err |-> FALSE, num |-> n, den |-> 1]

Divide(n, d) ==
    IF d = 0 THEN [err |-> TRUE, num |-> 0, den |-> 1]
    ELSE LET g == Gcd(Abs(n), Abs(d))
             sign == IF d < 0 THEN -1 ELSE 1
         IN  [err |-> FALSE, num |-> sign * (n \div g), den |-> sign * (d \div g)]

\* Faulty variant of taken_seats_of: seats = 0 is not set apart.
taken_seats_unguarded(s, attendees) ==
    Divide(100 * Cardinality(attendees), s)

\* Session._taken_seats: the value it assigns to taken_seats.
taken_seats_of(s, attendees) ==
    IF s = 0 THEN Float(0)
    ELSE Divide(100 * Cardinality(attendees), s)

\* taken_seats is not stored: reading it computes it from the record.
taken_seats == taken_seats_of(seats, attendee_ids)

\* Session._get_attendees_count
get_attendees_count(attendees) == Cardinality(attendees)

\* Faulty variant of verify_valid_seats: a full Session is warned about too.
verify_valid_seats_inclusive(s, attendees) ==
    IF s < 0 THEN IncorrectSeats
    ELSE IF s <= Cardinality(attendees) THEN TooManyAttendees
    ELSE NoWarning

\* Session._verify_valid_seats: the title of the warning it returns.
verify_valid_seats(s, attendees) ==
    IF s < 0 THEN IncorrectSeats
    ELSE IF s < Cardinality(attendees) THEN TooManyAttendees
    ELSE NoWarning

\* Faulty variant of check_instructor_not_in_attendees: the membership test
\* compares an id with records and never succeeds.
check_instructor_id_in_recordset(instructor, attendees) == FALSE

\* Session._check_instructor_not_in_attendees: whether it raises.
check_instructor_not_in_attendees(instructor, attendees) ==
    instructor # NoPartner /\ instructor \in attendees

SeatOp(op, s, partner, attendees) ==
    seat_last' = [op |-> op, seats |-> s, partner |-> partner,
                  attendee_ids |-> attendees]

\* write({'seats': s}): no constraint names seats.
WriteSeats(s) ==
    /\ seats' = s
    /\ session_error' = NoError
    /\ SeatOp("write_seats", s, NoPartner, {})
    /\ UNCHANGED <<instructor_id, attendee_ids, attendees_count, form, warning,
                   course_vars, date_vars>>

\* write({'instructor_id': partner}): the constraint runs on the new values and
\* a ValidationError rolls the write back.
WriteInstructor(partner) ==
    /\ IF check_instructor_not_in_attendees(partner, attendee_ids)
          THEN /\ session_error' = InstructorIsAttendee
               /\ UNCHANGED instructor_id
          ELSE /\ session_error' = NoError
               /\ instructor_id' = partner
    /\ SeatOp("write_instructor", 0, partner, {})
    /\ UNCHANGED <<seats, attendee_ids, attendees_count, form, warning,
                   course_vars, date_vars>>

\* write({'attendee_ids': [(6, 0, attendees)]})
WriteAttendees(attendees) ==
    /\ IF check_instructor_not_in_attendees(instructor_id, attendees)
          THEN /\ session_error' = InstructorIsAttendee
               /\ UNCHANGED <<attendee_ids, attendees_count>>
          ELSE /\ session_error' = NoError
               /\ attendee_ids' = attendees
               /\ attendees_count' = get_attendees_count(attendees)
    /\ SeatOp("write_attendees", 0, NoPartner, attendees)
    /\ UNCHANGED <<seats, instructor_id, form, warning, course_vars, date_vars>>

\* write({'instructor_id': partner, 'attendee_ids': [(6, 0, attendees)]})
WriteInstructorAndAttendees(partner, attendees) ==
    /\ IF check_instructor_not_in_attendees(partner, attendees)
          THEN /\ session_error' = InstructorIsAttendee
               /\ UNCHANGED <<instructor_id, attendee_ids, attendees_count>>
          ELSE /\ session_error' = NoError
               /\ instructor_id' = partner
               /\ attendee_ids' = attendees
               /\ attendees_count' = get_attendees_count(attendees)
    /\ SeatOp("write_instructor_and_attendees", 0, partner, attendees)
    /\ UNCHANGED <<seats, form, warning, course_vars, date_vars>>

\* An interactive edit of seats or attendee_ids in the form: the onchange
\* runs on the form's values and returns its warning; nothing is written.
Onchange(s, attendees) ==
    /\ form' = [seats |-> s, attendee_ids |-> attendees]
    /\ warning' = verify_valid_seats(s, attendees)
    /\ SeatOp("onchange", s, NoPartner, attendees)
    /\ UNCHANGED <<seats, instructor_id, attendee_ids, attendees_count,
                   session_error, course_vars, date_vars>>

SeatInit ==
    /\ seats = 0
    /\ instructor_id = NoPartner
    /\ attendee_ids = {}
    /\ attendees_count = get_attendees_count(attendee_ids)
    /\ form = [seats |-> seats, attendee_ids |-> attendee_ids]
    /\ warning = NoWarning
    /\ session_error = NoError
    /\ seat_last = [op |-> "create", seats |-> 0, partner |-> NoPartner,
                    attendee_ids |-> {}]

SeatNext ==
    \/ \E s \in SeatInputs : WriteSeats(s)
    \/ \E partner \in Partners \cup {NoPartner} : WriteInstructor(partner)
    \/ \E attendees \in SUBSET Partners : WriteAttendees(attendees)
    \/ \E partner \in Partners \cup {NoPartner}, attendees \in SUBSET Partners :
           WriteInstructorAndAttendees(partner, attendees)
    \/ \E s \in SeatInputs, attendees \in SUBSET Partners : Onchange(s, attendees)

-----------------------------------------------------------------------------
(* Specifications *)

Init == CourseInit /\ DateInit /\ SeatInit

Next == CourseNext \/ DateNext \/ SeatNext

\* The three groups of operations read and write disjoint fields; each is
\* explored on its own, the other fields staying as created.
CourseSpec == Init /\ [][CourseNext]_vars
DateSpec == Init /\ [][DateNext]_vars
SeatSpec == Init /\ [][SeatNext]_vars
Spec == Init /\ [][Next]_vars

-----------------------------------------------------------------------------
(* Course: properties *)

\* The count of Courses whose name begins, character for character, with
\* "Copy of " followed by name, and the title the documented rule gives.
literal_count(table, name) ==
    BagCardinality(Select(table, {r \in Rows(table) :
                                      StartsWith(r.name, CopyOf \o name)}))

literal_title(table, name) ==
    IF literal_count(table, name) = 0 THEN CopyOf \o name
    ELSE CopyOf \o name \o <<" ", "(">> \o Str(literal_count(table, name)) \o <<")">>

\* C1: in every committed state no two Courses have the same name and no
\* Course has a description equal to its name.
C1_NameUniqueAndNotDescription ==
    /\ \A r \in Rows(course) : course[r] = 1
    /\ \A r, x \in Rows(course) : r # x => r.name # x.name
    /\ \A r \in Rows(course) : r.description # <<r.name>>

\* A second Course named "a" was refused by the uniqueness constraint.
C1_Witness ==
    /\ course_last.op = "create"
    /\ course_error = "name_unique"
    /\ \E r \in Rows(course) : r.name = <<"a">>

\* C2: copy() never fails the name-uniqueness constraint.
C2_CopyNeverFailsUnique ==
    ~(course_last.op = "copy" /\ course_error = "name_unique")

\* C3: the title copy() computes is "Copy of <name>" when no Course's name
\* begins with "Copy of <name>" and "Copy of <name> (c)" when c of them do.
C3_CopyCountsLiteralPrefix ==
    [][course_last'.op = "copy" =>
          course_last'.new_name = literal_title(course, course_last'.src.name)]_vars

\* C4 (as claimed): no Course ever has a name starting with
\* "Copy of Copy of ".
C4_NeverNested ==
    \A r \in Rows(course) : ~StartsWith(r.name, CopyOf \o CopyOf)

\* C4 (amended): the title copy() computes always begins with "Copy of "
\* followed by the whole name of the Course copied, so the copy of a Course
\* whose name starts with "Copy of " has a title starting "Copy of Copy of ".
C4_CopyPrependsToFullName ==
    [][course_last'.op = "copy" =>
          /\ StartsWith(course_last'.new_name, CopyOf \o course_last'.src.name)
          /\ (StartsWith(course_last'.src.name, CopyOf) =>
                 StartsWith(course_last'.new_name, CopyOf \o CopyOf))]_vars

\* A copy of a Course named "Copy of ..." was committed under a nested title.
C4_Witness ==
    /\ course_last.op = "copy"
    /\ course_error = NoError
    /\ StartsWith(course_last.src.name, CopyOf)
    /\ StartsWith(course_last.new_name, CopyOf \o CopyOf)
    /\ \E r \in Rows(course) : r.name = course_last.new_name

-----------------------------------------------------------------------------
(* Session dates: properties *)

WholeDays(dur) == dur % DurationScale = 0

\* C5 (as claimed): for a Session with a start_date and any duration d,
\* writing duration = d, reading end_date and writing that end_date back
\* leaves duration = d.
C5_RoundTripEveryDuration ==
    [][(/\ date_last.op = "write_duration"
        /\ start_date # NoDate
        /\ date_last'.op = "write_end_date"
        /\ date_last'.val = end_date)
          => duration' = duration]_vars

\* C5 (amended): the round trip reproduces d when d is a whole number of days
\* other than 0.
C5_RoundTripWholeDays ==
    [][(/\ date_last.op = "write_duration"
        /\ start_date # NoDate
        /\ WholeDays(duration) /\ duration # 0
        /\ date_last'.op = "write_end_date"
        /\ date_last'.val = end_date)
          => duration' = duration]_vars

\* A 3-day duration was written, its end_date (start_date + 2) written back,
\* and duration is 3 days again.
C5_Witness ==
    /\ date_last.op = "write_end_date"
    /\ date_last.prev = "write_duration"
    /\ start_date # NoDate
    /\ date_last.val = start_date + 2
    /\ duration = 3 * DurationScale

\* C9: after start_date or duration is written, end_date = start_date when
\* either is absent (duration 0 counts as absent), and for a whole-day duration
\* d >= 1 end_date is start_date + (d - 1) days: a 1-day Session starting on
\* Monday (day 0) ends that Monday and a 5-day one ends on Friday (day 4).
C9_ForwardInclusiveDays ==
    date_last.op \in {"create", "write_start_date", "write_duration", "write_hours"} =>
        /\ (start_date = NoDate \/ duration = 0) => end_date = start_date
        /\ (/\ start_date # NoDate
            /\ WholeDays(duration)
            /\ duration >= DurationScale)
              => end_date = start_date + (duration \div DurationScale) - 1
        /\ (start_date = 0 /\ duration = DurationScale) => end_date = 0
        /\ (start_date = 0 /\ duration = 5 * DurationScale) => end_date = 4

\* A 5-day Session starting on Monday ends on Friday.
C9_Witness ==
    /\ date_last.op = "write_duration"
    /\ start_date = 0
    /\ duration = 5 * DurationScale
    /\ end_date = 4

\* C10: an end_date e on or after start_date, written directly, is still the
\* end_date after the inverse set duration = (e - start_date) + 1 days and the
\* forward rule recomputed end_date from it.
C10_WrittenEndDateStable ==
    (/\ date_last.op = "write_end_date"
     /\ start_date # NoDate
     /\ date_last.val # NoDate
     /\ date_last.val >= start_date)
        => /\ duration = (date_last.val - start_date + 1) * DurationScale
           /\ end_date = date_last.val

\* An end_date three days after start_date was written and kept.
C10_Witness ==
    /\ date_last.op = "write_end_date"
    /\ start_date # NoDate
    /\ date_last.val = start_date + 3
    /\ end_date = date_last.val
    /\ duration = 4 * DurationScale

-----------------------------------------------------------------------------
(* Session seats: properties *)

\* C6: no committed Session has its instructor among its attendees; a write
\* of instructor_id or attendee_ids whose new values would make it so fails
\* with the ValidationError and leaves the committed fields as they were.
C6_InstructorNeverAttendee ==
    /\ [](instructor_id = NoPartner \/ instructor_id \notin attendee_ids)
    /\ [][LET op == seat_last'.op
              instructor == IF op \in {"write_instructor",
                                       "write_instructor_and_attendees"}
                                THEN seat_last'.partner ELSE instructor_id
              attendees == IF op \in {"write_attendees",
                                      "write_instructor_and_attendees"}
                               THEN seat_last'.attendee_ids ELSE attendee_ids
          IN  (/\ op \in {"write_instructor", "write_attendees",
                          "write_instructor_and_attendees"}
               /\ instructor # NoPartner
               /\ instructor \in attendees)
                 => /\ session_error' = InstructorIsAttendee
                    /\ UNCHANGED <<seats, instructor_id, attendee_ids,
                                   attendees_count>>]_vars

\* Adding the instructor to the attendees was refused.
C6_Witness ==
    /\ seat_last.op = "write_attendees"
    /\ instructor_id # NoPartner
    /\ instructor_id \in seat_last.attendee_ids
    /\ session_error = InstructorIsAttendee
    /\ instructor_id \notin attendee_ids

\* C7: taken_seats is 0 when seats = 0 whatever the attendees, and
\* 100 * attendees_count / seats when seats > 0, attendees_count being the
\* number of attendee_ids; computing it raises no error.
C7_TakenSeats ==
    /\ attendees_count = Cardinality(attendee_ids)
    /\ ~taken_seats.err
    /\ seats = 0 => taken_seats.num = 0
    /\ seats > 0 => taken_seats.num * seats = 100 * attendees_count * taken_seats.den

\* A Session with no seats and two attendees.
C7_Witness ==
    /\ seats = 0
    /\ attendees_count = 2
    /\ taken_seats = Float(0)

\* C8: the onchange returns "Incorrect 'seats' value" when seats < 0 and
\* "Too many attendees" when 0 <= seats < number of attendees (no warning
\* otherwise) and changes no committed field; a write of seats is never
\* refused, whatever the value.
C8_SeatChecksAdvisory ==
    /\ [](warning = IF form.seats < 0 THEN IncorrectSeats
                    ELSE IF form.seats < Cardinality(form.attendee_ids)
                        THEN TooManyAttendees
                    ELSE NoWarning)
    /\ [][/\ seat_last'.op = "onchange" =>
                UNCHANGED <<seats, instructor_id, attendee_ids,
                            attendees_count, session_error>>
          /\ seat_last'.op = "write_seats" =>
                seats' = seat_last'.seats /\ session_error' = NoError]_vars

\* A committed Session with more attendees than seats, whose form shows the
\* same values and the "Too many attendees" warning.
C8_Witness ==
    /\ seats < Cardinality(attendee_ids)
    /\ seats >= 0
    /\ seat_last.op = "onchange"
    /\ warning = TooManyAttendees
    /\ form = [seats |-> seats, attendee_ids |-> attendee_ids]

====
